---- MODULE Spec2Model ----
(***************************************************************************)
(* Model of package.py: the build-and-package script of the Timestream     *)
(* Prometheus connector.  The script is one sequential process that, for   *)
(* every (target OS, architecture) pair, stages a directory, runs the Go   *)
(* compiler, polls for the binary (check_file), launches `tar` without     *)
(* waiting for it and, for linux, writes a zip and a serverless bundle.    *)
(* The only concurrency is between the script and the tar subprocesses it  *)
(* leaves running.                                                         *)
(*                                                                         *)
(* Strings of the program are TLA+ strings; the file system is the set of  *)
(* paths that exist.  Four specifications share the actions:               *)
(*   Spec           the whole script (__main__)                            *)
(*   RunBuildSpec   one call of run_build with arbitrary arguments         *)
(*   CreateTarballSpec  one iteration of the loop body (create_tarball and *)
(*                  the linux steps) with arbitrary arguments              *)
(*   CheckFileSpec  one call of check_file while the file may appear at    *)
(*                  any moment (FairCheckFileSpec adds the progress of     *)
(*                  the script itself)                                     *)
(***************************************************************************)
EXTENDS Naturals, Sequences, FiniteSets, TLC

\* ------------------------------------------------------------------ bounds
\* How many of the top-level documentation files may be missing at start.
MaxMissingDocs == 1
\* How many staged directories a previous run may have left behind.
MaxLeftover == 1

\* --------------------------------------------------------- program constants
\* Python's None, and a name that is not bound yet.  Both are kept apart from
\* every string the model draws.
None == "None"
Unbound == "<unbound>"

\* package.py:186
targets == <<"windows", "darwin", "linux">>
\* package.py:187
archs == <<"amd64", "arm64">>
\* package.py:184 (the -v argument; one run has one version)
connector_version == "9.9.9"
\* package.py:39
doc_files == <<"README.md", "LICENSE", "CHANGELOG.md", "GETTING_STARTED.md">>
\* package.py:95
Ceiling == 256
\* A backoff that starts at two.
FirstWaitTwo == 1 + 1

\* package.py:93
FirstWait == 1

DocFiles == {doc_files[i] : i \in 1..Len(doc_files)}
Targets == {targets[i] : i \in 1..Len(targets)}
Archs == {archs[i] : i \in 1..Len(archs)}
\* One pass of the nested loop, package.py:190-191.
Passes == Targets \X Archs

\* Position of a pass in the nested loop order (1-based).
PassIndex(p) ==
    LET i == CHOOSE k \in 1..Len(targets) : targets[k] = p[1]
        j == CHOOSE k \in 1..Len(archs) : archs[k] = p[2]
    IN (i - 1) * Len(archs) + j

VARIABLES
    entry,          \* the function this run started in: "main", "run_build", "check_file"
    pc,             \* the script's position
    ti, ai,         \* indexes of the two for loops (package.py:190-191)
    target, arch,   \* loop variables / arguments target_bin, arch
    files,          \* the file system: the set of paths that exist
    log,            \* records emitted by logging at level INFO and above
    proc,           \* output path of the running compiler subprocess, or None
    launches,       \* number of compiler subprocesses launched (Popen at line 67)
    tars,           \* the tar subprocesses still running
    bin_name,       \* create_tarball's bin_name (line 168)
    main_bin_name,  \* __main__'s bin_name (line 192): what create_tarball returned
    file_name,      \* check_file's argument
    wait_time,      \* check_file's wait_time
    ret,            \* where check_file returns to
    slept,          \* total time slept by the current check_file call
    checks,         \* existence checks made by the current check_file call
    outcome,        \* how the last check_file call ended: "none", "found", "gave_up"
    stage,          \* history: the state of every pass
    observed,       \* history: passes whose waiter saw the binary exist
    compiled,       \* history: result of every pass's compile
    tarStarted,     \* history: passes whose tar step was launched
    zipped,         \* history: passes that wrote a zip
    bundled         \* history: passes that wrote a serverless bundle

vars == <<entry, pc, ti, ai, target, arch, files, log, proc, launches, tars,
          bin_name, main_bin_name, file_name, wait_time, ret, slept, checks,
          outcome, stage, observed, compiled, tarStarted, zipped, bundled>>

\* Groups for UNCHANGED.
loopVars == <<ti, ai, target, arch>>
waitVars == <<file_name, wait_time, ret, slept, checks, outcome>>
histVars == <<stage, observed, compiled, tarStarted, zipped, bundled>>

\* ------------------------------------------------------------------ helpers
\* Python truthiness of an optional string: `not x` (package.py:55).
Falsy(x) == x = None \/ x = ""

Error(msg) == [level |-> "ERROR", msg |-> msg]
Info(msg) == [level |-> "INFO", msg |-> msg]

MsgNotSpecified == "Target binary or architecture not specified."
MsgCannotCreate == "Cannot create binary for packaging."
MsgUnable(f) == "Unable to create " \o f \o " within the time limit of 256 seconds."
MsgDone == "Done running script."
MsgOSError == "Failed to create a directory for the compiled binary."

\* The pass the script is working on.
cur == <<target, arch>>

SetStage(s) == IF cur \in Passes THEN [stage EXCEPT ![cur] = s] ELSE stage

\* A guard that wants both arguments missing before it refuses.
ArgsMissingBoth(target_bin, a) == Falsy(target_bin) /\ Falsy(a)

\* package.py:55: `not target_bin or not arch`.
ArgsMissing(target_bin, a) == Falsy(target_bin) \/ Falsy(a)

\* A compiler output path that forgets the Windows suffix.
BuildOutputNoExe(target_bin) == target_bin \o "/" \o "bootstrap"

\* package.py:60-64: the path the compiler writes, "{target}/bootstrap[.exe]".
BuildOutput(target_bin) ==
    IF target_bin = "windows"
    THEN target_bin \o "/" \o "bootstrap" \o ".exe"
    ELSE target_bin \o "/" \o "bootstrap"

\* package.py:80-82: the path check_binary polls.
BinaryPath(dir_name, binary) ==
    IF dir_name = "windows"
    THEN dir_name \o "/" \o (binary \o ".exe")
    ELSE dir_name \o "/" \o binary

\* An archive name that leaves the architecture out.
ArchiveNameNoArch(target_folder, a, version) ==
    "timestream-prometheus-connector-" \o target_folder \o "-" \o version

\* package.py:174
ArchiveName(target_folder, a, version) ==
    "timestream-prometheus-connector-" \o target_folder \o "-" \o a \o "-" \o version

\* package.py:150: the file `tar czf` writes.
TarballName(name) == name \o ".tar.gz"

\* package.py:111 / 130: the zip written by make_archive, read by package_sam_template.
ZipName(name) == name \o ".zip"

\* package.py:128-129
SamTarName(a, version) ==
    "timestream-prometheus-connector-serverless-application-" \o a \o "-" \o version \o ".tar.gz"

\* A test that only leaves Windows out.
IsNotWindows(t) == t # "windows"

\* package.py:193
IsLinux(t) == t = "linux"

\* What create_directory leaves in dir_name (package.py:39-42).
StagedDocs(dir_name, fs) ==
    {dir_name \o "/" \o f : f \in DocFiles \cap fs}

\* A staged directory as a complete earlier run left it.
Leftover(t) ==
    {t, BuildOutput(t), t \o "/documentation"} \cup {t \o "/" \o f : f \in DocFiles}

\* ------------------------------------------------------------ initial states
NoHistory ==
    /\ stage = [p \in Passes |-> "NONE"]
    /\ observed = {}
    /\ compiled = [p \in Passes |-> "none"]
    /\ tarStarted = {}
    /\ zipped = {}
    /\ bundled = {}

NoWait ==
    /\ file_name = Unbound
    /\ wait_time = 0
    /\ ret = "exit"
    /\ slept = 0
    /\ checks = 0
    /\ outcome = "none"

\* The working directories the script may be started in: the repository with
\* some documentation files possibly missing (the script treats the four alike,
\* so the missing ones are the first k), with or without documentation/, and
\* possibly with staged directories of an earlier run.
StartDirs ==
    {{doc_files[i] : i \in (k + 1)..Len(doc_files)} \cup tree
            \cup UNION {Leftover(t) : t \in left} :
        k \in 0..MaxMissingDocs,
        tree \in {{}, {"documentation"}},
        left \in {l \in SUBSET Targets : Cardinality(l) <= MaxLeftover}}

\* package.py:179-188: the script before its loops.
Init ==
    /\ entry = "main"
    /\ pc = "for"
    /\ ti = 1 /\ ai = 1
    /\ target = Unbound /\ arch = Unbound
    /\ files \in StartDirs
    /\ log = <<>>
    /\ proc = None
    /\ launches = 0
    /\ tars = {}
    /\ bin_name = Unbound
    /\ main_bin_name = Unbound
    /\ NoWait
    /\ NoHistory

\* ------------------------------------------------------------------ __main__
\* package.py:190-191: the next iteration of the nested loops, entering
\* create_tarball (line 192).
ForNext ==
    /\ entry = "main" /\ pc = "for"
    /\ ti <= Len(targets)
    /\ target' = targets[ti]
    /\ arch' = archs[ai]
    /\ pc' = "create_directory"
    /\ UNCHANGED <<entry, ti, ai, files, log, proc, launches, tars, bin_name,
                   main_bin_name, waitVars, histVars>>

\* package.py:197: both loops are exhausted.
LogDone ==
    /\ entry = "main" /\ pc = "for"
    /\ ti > Len(targets)
    /\ log' = Append(log, Info(MsgDone))
    /\ pc' = "exit"
    /\ UNCHANGED <<entry, loopVars, files, proc, launches, tars, bin_name,
                   main_bin_name, waitVars, histVars>>

\* The two loops nested the other way round: the target advances first.
AdvanceSwapped ==
    /\ pc' = "for"
    /\ IF ti < Len(targets)
       THEN ti' = ti + 1 /\ ai' = ai
       ELSE /\ ti' = (IF ai < Len(archs) THEN 1 ELSE ti + 1)
            /\ ai' = (IF ai < Len(archs) THEN ai + 1 ELSE ai)
    /\ UNCHANGED <<target, arch>>

\* The end of one iteration of the inner loop.
Advance ==
    /\ pc' = "for"
    /\ IF ai < Len(archs)
       THEN ai' = ai + 1 /\ ti' = ti
       ELSE ai' = 1 /\ ti' = ti + 1
    /\ UNCHANGED <<target, arch>>

\* --------------------------------------------------------- create_directory
\* package.py:34-36: os.mkdir is called only when the directory is missing;
\* here it succeeds, which no os.mkdir("") does.
CreateDirectory ==
    /\ pc = "create_directory"
    /\ ~Falsy(target)
    /\ files' = IF target \notin files THEN files \cup {target} ELSE files
    /\ pc' = "copy"
    /\ UNCHANGED <<entry, loopVars, log, proc, launches, tars, bin_name,
                   main_bin_name, waitVars, histVars>>

\* An os.mkdir whose error is logged and swallowed inside create_directory.
MkdirRaisesIgnored ==
    /\ pc = "create_directory"
    /\ target \notin files
    /\ log' = Append(log, Error(MsgOSError))
    /\ pc' = "copy"
    /\ UNCHANGED <<entry, loopVars, files, proc, launches, tars, bin_name,
                   main_bin_name, waitVars, histVars>>

\* An os.mkdir that is called whether or not the directory exists, and so
\* raises for a directory that does.
MkdirAlwaysRaises ==
    /\ pc = "create_directory"
    /\ target # None
    /\ log' = Append(log, Error(MsgOSError))
    /\ pc' = "exit"
    /\ UNCHANGED <<entry, loopVars, files, proc, launches, tars, bin_name,
                   main_bin_name, waitVars, histVars>>

\* package.py:36, 199-200: os.mkdir raises an OSError, which leaves
\* create_directory, create_tarball and both loops and is caught at line 199.
MkdirRaises ==
    /\ pc = "create_directory"
    /\ target # None
    /\ target \notin files
    /\ log' = Append(log, Error(MsgOSError))
    /\ pc' = "exit"
    /\ UNCHANGED <<entry, loopVars, files, proc, launches, tars, bin_name,
                   main_bin_name, waitVars, histVars>>

\* package.py:34: os.path.exists(None) is a TypeError, which nothing catches.
CreateDirectoryTypeError ==
    /\ pc = "create_directory"
    /\ target = None
    /\ pc' = "crashed"
    /\ UNCHANGED <<entry, loopVars, files, log, proc, launches, tars, bin_name,
                   main_bin_name, waitVars, histVars>>

\* package.py:38-42: the documentation files that exist are copied, then the
\* documentation tree.  copy_tree raises DistutilsFileError, which is no
\* OSError and ends the script uncaught, when documentation/ is missing.
CopyDocs ==
    /\ pc = "copy"
    /\ IF "documentation" \in files
       THEN /\ files' = files \cup StagedDocs(target, files)
                              \cup {target \o "/documentation"}
            /\ stage' = SetStage("STAGED")
            /\ pc' = "run_build"
       ELSE /\ files' = files \cup StagedDocs(target, files)
            /\ stage' = stage
            /\ pc' = "crashed"
    /\ UNCHANGED <<entry, loopVars, log, proc, launches, tars, bin_name,
                   main_bin_name, waitVars, observed, compiled, tarStarted,
                   zipped, bundled>>

\* A create_tarball that logs the failed build and carries on (the return of
\* line 171 is missing).
RunBuildNoAbort ==
    /\ pc = "run_build"
    /\ IF ArgsMissing(target, arch)
       THEN /\ bin_name' = None
            /\ UNCHANGED <<proc, launches, stage, main_bin_name>>
            /\ IF entry = "main"
               THEN /\ log' = Append(Append(log, Error(MsgNotSpecified)),
                                     Error(MsgCannotCreate))
                    /\ pc' = "check_binary"
               ELSE /\ log' = Append(log, Error(MsgNotSpecified))
                    /\ pc' = "exit"
       ELSE /\ proc' = BuildOutput(target)
            /\ launches' = launches + 1
            /\ stage' = SetStage("BUILD_LAUNCHED")
            /\ pc' = "communicate"
            /\ UNCHANGED <<bin_name, log, main_bin_name>>
    /\ UNCHANGED <<entry, loopVars, files, tars, waitVars, observed, compiled,
                   tarStarted, zipped, bundled>>

\* ---------------------------------------------------------------- run_build
\* package.py:55-67 (and 169-171 in create_tarball): the argument check, then
\* the compiler is launched with Popen.
RunBuild ==
    /\ pc = "run_build"
    /\ IF ArgsMissing(target, arch)
       THEN /\ bin_name' = None
            /\ UNCHANGED <<proc, launches, stage>>
            /\ IF entry = "main"
               THEN /\ log' = Append(Append(log, Error(MsgNotSpecified)),
                                     Error(MsgCannotCreate))
                    /\ main_bin_name' = None
                    /\ pc' = "if_linux"
               ELSE /\ log' = Append(log, Error(MsgNotSpecified))
                    /\ main_bin_name' = main_bin_name
                    /\ pc' = "exit"
       ELSE /\ proc' = BuildOutput(target)
            /\ launches' = launches + 1
            /\ stage' = SetStage("BUILD_LAUNCHED")
            /\ pc' = "communicate"
            /\ UNCHANGED <<bin_name, log, main_bin_name>>
    /\ UNCHANGED <<entry, loopVars, files, tars, waitVars, observed, compiled,
                   tarStarted, zipped, bundled>>

\* A run_build that returns the file name without waiting for the compiler:
\* no communicate(), the subprocess is left running.
CommunicateNoWait ==
    /\ pc = "communicate"
    /\ bin_name' = "bootstrap"
    /\ pc' = IF entry = "main" THEN "check_binary" ELSE "exit"
    /\ UNCHANGED <<entry, loopVars, files, log, proc, launches, tars,
                   main_bin_name, waitVars, histVars>>

\* package.py:68-69: communicate() returns when the compiler has exited.  A
\* compile that succeeded has written its output (and the directory holding
\* it); one that failed has written nothing and removed nothing.
Communicate ==
    /\ pc = "communicate"
    /\ \E ok \in BOOLEAN :
        /\ files' = IF ok THEN files \cup {target, proc} ELSE files
        /\ compiled' = IF cur \in Passes
                       THEN [compiled EXCEPT ![cur] = IF ok THEN "ok" ELSE "failed"]
                       ELSE compiled
    /\ proc' = None
    /\ bin_name' = "bootstrap"
    /\ pc' = IF entry = "main" THEN "check_binary" ELSE "exit"
    /\ UNCHANGED <<entry, loopVars, log, launches, tars, main_bin_name,
                   waitVars, stage, observed, tarStarted, zipped, bundled>>

\* ------------------------------------------------- check_binary, check_file
\* package.py:93: check_file starts; r is where its caller goes on.
check_file(f, r) ==
    /\ file_name' = f
    /\ wait_time' = FirstWait
    /\ slept' = 0
    /\ checks' = 0
    /\ outcome' = "none"
    /\ ret' = r
    /\ pc' = "while"

\* package.py:173, 80-82: create_tarball calls check_binary, which calls
\* check_file on the binary's path.
CheckBinary ==
    /\ pc = "check_binary"
    /\ check_file(BinaryPath(target, bin_name), "tar_dir")
    /\ UNCHANGED <<entry, loopVars, files, log, proc, launches, tars, bin_name,
                   main_bin_name, histVars>>

\* A backoff that grows by one instead of doubling.
NextWaitLinear(w) == w + 1

\* The doubling of package.py:100.
NextWait(w) == w * 2

\* A loop that sleeps once more after the check that found the file.
CheckFileFoundLate ==
    /\ pc = "while"
    /\ file_name \in files
    /\ checks' = checks + 1
    /\ slept' = slept + wait_time
    /\ outcome' = "found"
    /\ pc' = ret
    /\ IF ret = "tar_dir"
       THEN /\ observed' = observed \cup {cur}
            /\ stage' = SetStage("BINARY_CONFIRMED")
       ELSE UNCHANGED <<observed, stage>>
    /\ UNCHANGED <<entry, loopVars, files, log, proc, launches, tars, bin_name,
                   main_bin_name, file_name, wait_time, ret, compiled,
                   tarStarted, zipped, bundled>>

\* package.py:94: the loop condition finds the file; check_file returns.
CheckFileFound ==
    /\ pc = "while"
    /\ file_name \in files
    /\ checks' = checks + 1
    /\ outcome' = "found"
    /\ pc' = ret
    /\ IF ret = "tar_dir"
       THEN /\ observed' = observed \cup {cur}
            /\ stage' = SetStage("BINARY_CONFIRMED")
       ELSE UNCHANGED <<observed, stage>>
    /\ UNCHANGED <<entry, loopVars, files, log, proc, launches, tars, bin_name,
                   main_bin_name, file_name, wait_time, ret, slept, compiled,
                   tarStarted, zipped, bundled>>

\* A waiter that raises TimeoutError (an OSError, caught at line 199) when it
\* gives up.
CheckFileGiveUpRaises ==
    /\ pc = "while"
    /\ file_name \notin files
    /\ wait_time >= Ceiling
    /\ checks' = checks + 1
    /\ log' = Append(Append(log, Error(MsgUnable(file_name))), Error(MsgOSError))
    /\ outcome' = "gave_up"
    /\ pc' = "exit"
    /\ stage' = IF ret = "tar_dir" THEN SetStage("BUILD_TIMED_OUT") ELSE stage
    /\ UNCHANGED <<entry, loopVars, files, proc, launches, tars, bin_name,
                   main_bin_name, file_name, wait_time, ret, slept, observed,
                   compiled, tarStarted, zipped, bundled>>

\* package.py:94-97: the file is missing and wait_time has reached the
\* ceiling; the error is logged and check_file returns.
CheckFileGiveUp ==
    /\ pc = "while"
    /\ file_name \notin files
    /\ wait_time >= Ceiling
    /\ checks' = checks + 1
    /\ log' = Append(log, Error(MsgUnable(file_name)))
    /\ outcome' = "gave_up"
    /\ pc' = ret
    /\ stage' = IF ret = "tar_dir" THEN SetStage("BUILD_TIMED_OUT") ELSE stage
    /\ UNCHANGED <<entry, loopVars, files, proc, launches, tars, bin_name,
                   main_bin_name, file_name, wait_time, ret, slept, observed,
                   compiled, tarStarted, zipped, bundled>>

\* package.py:94-100: the file is missing; sleep wait_time, then double it.
CheckFileSleep ==
    /\ pc = "while"
    /\ file_name \notin files
    /\ wait_time < Ceiling
    /\ checks' = checks + 1
    /\ slept' = slept + wait_time
    /\ wait_time' = NextWait(wait_time)
    /\ UNCHANGED <<entry, pc, loopVars, files, log, proc, launches, tars,
                   bin_name, main_bin_name, file_name, ret, outcome, histVars>>

\* ------------------------------------------------------------------ tar_dir
\* A tar_dir that waits for tar: the tarball is on disk when it returns and no
\* subprocess is left behind.
TarDirWaits ==
    /\ pc = "tar_dir"
    /\ LET archive_name == ArchiveName(target, arch, connector_version)
       IN /\ files' = files \cup {TarballName(archive_name)}
          /\ main_bin_name' = archive_name
    /\ tarStarted' = tarStarted \cup {cur}
    /\ stage' = SetStage("ARCHIVED")
    /\ pc' = "if_linux"
    /\ UNCHANGED <<entry, loopVars, log, proc, launches, tars, bin_name,
                   waitVars, observed, compiled, zipped, bundled>>

\* package.py:174-176, 150-152: the tar command is started with Popen and not
\* waited for; create_tarball returns the archive name to line 192.
TarDir ==
    /\ pc = "tar_dir"
    /\ LET archive_name == ArchiveName(target, arch, connector_version)
       IN /\ tars' = tars \cup {[file |-> TarballName(archive_name),
                                 dir |-> target, pass |-> cur]}
          /\ main_bin_name' = archive_name
    /\ tarStarted' = tarStarted \cup {cur}
    /\ stage' = SetStage("ARCHIVED")
    /\ pc' = "if_linux"
    /\ UNCHANGED <<entry, loopVars, files, log, proc, launches, bin_name,
                   waitVars, observed, compiled, zipped, bundled>>

\* A tar subprocess the script left running finishes and its tarball is on
\* disk.
TarExit ==
    /\ \E t \in tars :
        /\ tars' = tars \ {t}
        /\ files' = files \cup {t.file}
    /\ UNCHANGED <<entry, pc, loopVars, log, proc, launches, bin_name,
                   main_bin_name, waitVars, histVars>>

\* --------------------------------------------- zip_dir, package_sam_template
\* package.py:193: the target is not linux; the iteration ends.
SkipPackage ==
    /\ pc = "if_linux"
    /\ ~IsLinux(target)
    /\ Advance
    /\ UNCHANGED <<entry, files, log, proc, launches, tars, bin_name,
                   main_bin_name, waitVars, histVars>>

\* package.py:193-194, 110-111: make_archive writes "<bin_name>.zip" from the
\* linux directory before it returns.  A bin_name of None is a TypeError,
\* which nothing catches.
ZipDir ==
    /\ pc = "if_linux"
    /\ IsLinux(target)
    /\ IF main_bin_name = None
       THEN /\ pc' = "crashed"
            /\ UNCHANGED <<files, zipped>>
       ELSE /\ files' = files \cup {ZipName(main_bin_name)}
            /\ zipped' = zipped \cup {cur}
            /\ pc' = "package_sam_template"
    /\ UNCHANGED <<entry, loopVars, log, proc, launches, tars, bin_name,
                   main_bin_name, waitVars, stage, observed, compiled,
                   tarStarted, bundled>>

\* A package_sam_template that takes its first argument for the binary's name,
\* as its docstring has it, and looks for "bootstrap.zip".
PackageSamTemplateBinary ==
    /\ pc = "package_sam_template"
    /\ files' = files \cup {SamTarName(arch, connector_version)}
    /\ check_file(ZipName(bin_name), "tar_add")
    /\ UNCHANGED <<entry, loopVars, log, proc, launches, tars, bin_name,
                   main_bin_name, histVars>>

\* package.py:128-136: the bundle is opened for writing, the files of
\* ./serverless are added, and check_file is called on the zip.
PackageSamTemplate ==
    /\ pc = "package_sam_template"
    /\ files' = files \cup {SamTarName(arch, connector_version)}
    /\ check_file(ZipName(main_bin_name), "tar_add")
    /\ UNCHANGED <<entry, loopVars, log, proc, launches, tars, bin_name,
                   main_bin_name, histVars>>

\* package.py:137: the zip is added to the bundle, which ends the iteration.
\* A missing zip is a FileNotFoundError, an OSError caught at line 199.
TarAdd ==
    /\ pc = "tar_add"
    /\ IF file_name \in files
       THEN /\ bundled' = bundled \cup {cur}
            /\ log' = log
            /\ Advance
       ELSE /\ bundled' = bundled
            /\ log' = Append(log, Error(MsgOSError))
            /\ pc' = "exit"
            /\ UNCHANGED loopVars
    /\ UNCHANGED <<entry, files, proc, launches, tars, bin_name, main_bin_name,
                   waitVars, stage, observed, compiled, tarStarted, zipped>>

\* ------------------------------------------------------- the whole script
Next ==
    \/ ForNext
    \/ LogDone
    \/ CreateDirectory
    \/ MkdirRaises
    \/ CopyDocs
    \/ RunBuild
    \/ Communicate
    \/ CheckBinary
    \/ CheckFileFound
    \/ CheckFileGiveUp
    \/ CheckFileSleep
    \/ TarDir
    \/ TarExit
    \/ SkipPackage
    \/ ZipDir
    \/ PackageSamTemplate
    \/ TarAdd

Spec == Init /\ [][Next]_vars

\* ------------------------------------------------- one call of run_build
\* run_build(target, arch) called on its own, with arguments that may be
\* missing (None) or empty.
TargetArgs == {None, ""} \cup Targets
ArchArgs == {None, ""} \cup Archs

RunBuildInit ==
    /\ entry = "run_build"
    /\ pc = "run_build"
    /\ ti = 1 /\ ai = 1
    /\ target \in TargetArgs
    /\ arch \in ArchArgs
    /\ files \in StartDirs
    /\ log = <<>>
    /\ proc = None
    /\ launches = 0
    /\ tars = {}
    /\ bin_name = Unbound
    /\ main_bin_name = Unbound
    /\ NoWait
    /\ NoHistory

RunBuildNext ==
    \/ RunBuild
    \/ Communicate

RunBuildSpec == RunBuildInit /\ [][RunBuildNext]_vars

\* ------------------------------------------------ one call of check_file
\* The paths the script polls: the three binaries and the two linux zips.
PolledPaths ==
    {BinaryPath(t, "bootstrap") : t \in Targets}
        \cup {ZipName(ArchiveName("linux", a, connector_version)) : a \in Archs}

CheckFileInit ==
    /\ entry = "check_file"
    /\ pc = "check_file"
    /\ ti = 1 /\ ai = 1
    /\ target = Unbound /\ arch = Unbound
    /\ files \in StartDirs
    /\ log = <<>>
    /\ proc = None
    /\ launches = 0
    /\ tars = {}
    /\ bin_name = Unbound
    /\ main_bin_name = Unbound
    /\ file_name \in PolledPaths
    /\ wait_time = 0
    /\ ret = "exit"
    /\ slept = 0
    /\ checks = 0
    /\ outcome = "none"
    /\ NoHistory

\* check_file(file_name) is called.
CallCheckFile ==
    /\ pc = "check_file"
    /\ check_file(file_name, "exit")
    /\ UNCHANGED <<entry, loopVars, files, log, proc, launches, tars, bin_name,
                   main_bin_name, histVars>>

\* Whoever writes the polled file (a compiler, an archiver) creates it, at
\* any moment of the call.
FileAppears ==
    /\ pc \in {"check_file", "while"}
    /\ file_name \notin files
    /\ files' = files \cup {file_name}
    /\ UNCHANGED <<entry, pc, loopVars, log, proc, launches, tars, bin_name,
                   main_bin_name, waitVars, histVars>>

\* The steps of check_file itself.
CheckFileStep ==
    \/ CallCheckFile
    \/ CheckFileFound
    \/ CheckFileGiveUp
    \/ CheckFileSleep

CheckFileNext ==
    \/ CheckFileStep
    \/ FileAppears

CheckFileSpec == CheckFileInit /\ [][CheckFileNext]_vars

\* The script is a running process: a step of check_file that can be taken
\* is taken.  Nothing obliges the file to appear.
FairCheckFileSpec == CheckFileSpec /\ WF_vars(CheckFileStep)

\* ----------------------------------- one iteration of the loop body
\* Lines 192-195 (create_tarball, then the linux steps) run once with a target
\* and an architecture that may be missing or empty.
CreateTarballInit ==
    /\ entry = "main"
    /\ pc = "create_directory"
    /\ ti = 1 /\ ai = 1
    /\ target \in TargetArgs
    /\ arch \in ArchArgs
    /\ files \in StartDirs
    /\ log = <<>>
    /\ proc = None
    /\ launches = 0
    /\ tars = {}
    /\ bin_name = Unbound
    /\ main_bin_name = Unbound
    /\ NoWait
    /\ NoHistory

CreateTarballNext ==
    \/ CreateDirectory
    \/ MkdirRaises
    \/ CreateDirectoryTypeError
    \/ CopyDocs
    \/ RunBuild
    \/ Communicate
    \/ CheckBinary
    \/ CheckFileFound
    \/ CheckFileGiveUp
    \/ CheckFileSleep
    \/ TarDir
    \/ TarExit
    \/ SkipPackage
    \/ ZipDir
    \/ PackageSamTemplate
    \/ TarAdd

CreateTarballSpec == CreateTarballInit /\ [][CreateTarballNext]_vars

\* ------------------------------------------------------------------ claims
Range(q) == {q[i] : i \in 1..Len(q)}

\* The index of the iteration the loops are at.
LoopIndex == (ti - 1) * Len(archs) + ai

\* The script has left the iteration of pass p.
PassOver(p) == PassIndex(p) < LoopIndex

LinuxPasses == {p \in Passes : p[1] = "linux"}

\* C1: no archive step of a pass (its tar, and for linux its zip and its
\* serverless bundle) is started unless the waiter of that pass has seen the
\* pass's binary exist.
C1_ArchiveOnlyAfterObserved ==
    (tarStarted \cup zipped \cup bundled) \subseteq observed

\* Total slept before the n-th existence check: 1 + 2 + ... (n - 1 terms).
RECURSIVE SleptBefore(_)
SleptBefore(n) == IF n <= 1 THEN 0 ELSE 2 * SleptBefore(n - 1) + 1

\* C2: check_file returns at the first existence check that finds the file:
\* it has slept only before the earlier, failed checks (nothing at all when
\* the first check finds the file), it has logged no error, and it is back in
\* its caller.
C2_ReturnsAtFirstHit ==
    outcome = "found" =>
        /\ pc = ret
        /\ slept = SleptBefore(checks)
        /\ (checks = 1 => slept = 0)
        /\ log = <<>>

C2_Witness == outcome = "found" /\ checks = 1 /\ slept = 0 /\ pc = "exit"

\* C3: whatever the file does, check_file terminates by returning; when it
\* has returned it has slept at most 511 units, and it has logged exactly one
\* error if it gave up and none if it found the file.
C3_TerminatesBounded ==
    /\ <>(pc = "exit")
    /\ [](pc = "exit" =>
            /\ slept <= 511
            /\ \/ outcome = "found" /\ log = <<>>
               \/ outcome = "gave_up" /\ log = <<Error(MsgUnable(file_name))>>
                    /\ file_name \notin files)

C3_Witness == pc = "exit" /\ outcome = "gave_up" /\ slept = 255 /\ Len(log) = 1

\* C4: run_build called with a missing or empty target or architecture logs
\* the error, returns None, and launches no compiler.
C4_MissingArgsNoLaunch ==
    (Falsy(target) \/ Falsy(arch)) =>
        /\ launches = 0
        /\ proc = None
        /\ pc \in {"run_build", "exit"}
        /\ pc = "exit" =>
            /\ bin_name = None
            /\ log = <<Error(MsgNotSpecified)>>

C4_Witness ==
    /\ pc = "exit" /\ target = "linux" /\ arch = ""
    /\ bin_name = None /\ Len(log) = 1 /\ launches = 0

\* C5: only linux passes write a zip or a serverless bundle, and every linux
\* pass that launched its tar has written both once its iteration is over.
C5_ZipOnlyLinux ==
    /\ (zipped \cup bundled) \subseteq LinuxPasses
    /\ \A p \in Passes :
        /\ ZipName(ArchiveName(p[1], p[2], connector_version)) \in files
              => p \in LinuxPasses
        /\ (p \in LinuxPasses /\ p \in tarStarted /\ PassOver(p))
              => /\ p \in zipped /\ p \in bundled
                 /\ ZipName(ArchiveName(p[1], p[2], connector_version)) \in files
                 /\ SamTarName(p[2], connector_version) \in files

C5_Witness ==
    /\ pc = "exit"
    /\ zipped = LinuxPasses /\ bundled = LinuxPasses
    /\ tarStarted = Passes

\* The order of the states of one pass.
StageOrder ==
    {<<"NONE", "STAGED">>,
     <<"STAGED", "BUILD_LAUNCHED">>,
     <<"BUILD_LAUNCHED", "BINARY_CONFIRMED">>,
     <<"BUILD_LAUNCHED", "BUILD_TIMED_OUT">>,
     <<"BINARY_CONFIRMED", "ARCHIVED">>,
     <<"BUILD_TIMED_OUT", "ARCHIVED">>}

\* Pass q has issued every archive step it has.
ArchivesIssued(q) ==
    /\ stage[q] = "ARCHIVED"
    /\ q \in tarStarted
    /\ q \in LinuxPasses => (q \in zipped /\ q \in bundled)

\* C6: a pass changes state only along STAGED, BUILD_LAUNCHED, then
\* BINARY_CONFIRMED or BUILD_TIMED_OUT, then ARCHIVED, one pass at a time;
\* and a pass is staged only when every pass before it in the nested loop
\* order has issued its archive steps and no pass after it has started.
C6_StagesInOrder ==
    [][\A p \in Passes :
          stage'[p] # stage[p] =>
            /\ <<stage[p], stage'[p]>> \in StageOrder
            /\ \A q \in Passes \ {p} : stage'[q] = stage[q]
            /\ \A q \in Passes :
                /\ PassIndex(q) < PassIndex(p) => ArchivesIssued(q)
                /\ PassIndex(q) > PassIndex(p) => stage[q] = "NONE"]_vars

C6_Witness ==
    /\ \A p \in Passes : stage[p] = "ARCHIVED"
    /\ pc = "exit"

\* The waiter of pass p gave up.
TimedOut(p) ==
    \/ stage[p] = "BUILD_TIMED_OUT"
    \/ stage[p] = "ARCHIVED" /\ p \notin observed

\* The steps of the script itself (everything but the tar subprocesses).
ScriptNext ==
    \/ ForNext \/ LogDone \/ CreateDirectory \/ CopyDocs \/ RunBuild
    \/ Communicate \/ CheckBinary \/ CheckFileFound \/ CheckFileGiveUp
    \/ CheckFileSleep \/ TarDir \/ SkipPackage \/ ZipDir
    \/ PackageSamTemplate \/ TarAdd

\* C7: a pass whose waiter gave up has its error logged, goes straight on to
\* its tar step, writes its zip and bundle if it is linux, and the script
\* goes on after it: it neither crashes nor stops before the loops end, short
\* of a later directory that cannot be created.
C7_TimeoutNotFatal ==
    \A p \in Passes : TimedOut(p) =>
        /\ Error(MsgUnable(BinaryPath(p[1], "bootstrap"))) \in Range(log)
        /\ stage[p] = "BUILD_TIMED_OUT" => (cur = p /\ pc = "tar_dir")
        /\ stage[p] = "ARCHIVED" => p \in tarStarted
        /\ (p \in LinuxPasses /\ PassOver(p)) => (p \in zipped /\ p \in bundled)
        /\ pc # "crashed"
        /\ pc # "exit" => ENABLED ScriptNext
        /\ pc = "exit" =>
            \/ /\ log[Len(log)] = Info(MsgDone)
               /\ \A q \in Passes : ArchivesIssued(q)
            \/ /\ log[Len(log)] = Error(MsgOSError)
               /\ PassIndex(cur) > PassIndex(p)
               /\ stage[cur] = "NONE"
               /\ cur[1] \notin files

C7_Witness ==
    /\ pc = "exit"
    /\ log[Len(log)] = Info(MsgDone)
    /\ TimedOut(<<"windows", "amd64">>)
    /\ TimedOut(<<"linux", "amd64">>)
    /\ <<"linux", "amd64">> \in bundled

\* C8: when os.mkdir fails in a pass the run is over: that pass and every
\* later one has staged, built, waited for and archived nothing, and the
\* completion message is not logged.
C8_MkdirFailureEndsRun ==
    Error(MsgOSError) \in Range(log) =>
        /\ pc = "exit"
        /\ proc = None
        /\ Info(MsgDone) \notin Range(log)
        /\ \A q \in Passes : PassIndex(q) >= PassIndex(cur) =>
            /\ stage[q] = "NONE"
            /\ compiled[q] = "none"
            /\ q \notin (observed \cup tarStarted \cup zipped \cup bundled)
            /\ \A t \in tars : t.pass # q

C8_Witness ==
    /\ Error(MsgOSError) \in Range(log)
    /\ cur = <<"darwin", "amd64">>
    /\ stage[<<"windows", "arm64">>] = "ARCHIVED"

\* C9: after a run that logged the completion message and in which every
\* compile succeeded, every target's staged directory exists and holds the
\* binary (bootstrap.exe for windows, bootstrap otherwise), a copy of every
\* top-level documentation file that is present, and the documentation tree.
C9_StagedComplete ==
    (Info(MsgDone) \in Range(log) /\ \A p \in Passes : compiled[p] = "ok") =>
        \A t \in Targets :
            /\ t \in files
            /\ (IF t = "windows" THEN "windows/bootstrap.exe"
                                 ELSE t \o "/bootstrap") \in files
            /\ \A f \in DocFiles : f \in files => (t \o "/" \o f) \in files
            /\ (t \o "/documentation") \in files

C9_Witness ==
    /\ Info(MsgDone) \in Range(log)
    /\ \A p \in Passes : compiled[p] = "ok"
    /\ "README.md" \notin files
    /\ "darwin/LICENSE" \in files

\* C10: the script never writes into a staged directory (copying the
\* documentation, or with its compiler running) while a tar subprocess that
\* another pass launched on that directory is still running.
C10_NoCrossPassRace ==
    \A t \in tars :
        (t.pass # cur /\ t.dir = target) => pc \notin {"copy", "communicate"}

\* C11: a pass whose compile failed never has its waiter see the binary: it
\* is not in BINARY_CONFIRMED, and once its wait is over it has timed out.
C11_FailedCompileNeverConfirmed ==
    \A p \in Passes : compiled[p] = "failed" =>
        /\ p \notin observed
        /\ stage[p] # "BINARY_CONFIRMED"

\* run_build is running: between its argument check and its return.
InRunBuild == pc \in {"run_build", "communicate"}

\* C12 as stated: when run_build returns the file name, the compiler it
\* launched has not been waited for and is still running.
C12_ReturnsWhileCompiling ==
    [][(InRunBuild /\ ~InRunBuild' /\ bin_name' # None) => proc' # None]_vars

\* C12 as the code has it: run_build waits for the compiler (communicate)
\* before it returns, so a compiler runs only inside run_build, and a pass
\* that is past run_build with a file name has a finished compile.
C12_BuildIsSynchronous ==
    /\ proc # None => pc = "communicate"
    /\ \A p \in Passes :
        stage[p] \in {"BINARY_CONFIRMED", "BUILD_TIMED_OUT", "ARCHIVED"}
            => compiled[p] # "none"
    /\ (pc = "check_binary" /\ cur \in Passes) =>
            /\ bin_name = "bootstrap"
            /\ compiled[cur] # "none"
            /\ (compiled[cur] = "ok" => BuildOutput(target) \in files)

C12_Witness ==
    /\ pc = "check_binary"
    /\ bin_name = "bootstrap"
    /\ proc = None
    /\ compiled[<<"darwin", "arm64">>] = "ok"
    /\ stage[<<"darwin", "arm64">>] = "BUILD_LAUNCHED"

\* The tarball of pass p.
TarballOf(p) == TarballName(ArchiveName(p[1], p[2], connector_version))

\* C13: tar_dir returns with its tar subprocess still running and its tarball
\* not yet written by that step, and nothing later in the script waits for
\* it: whenever tar subprocesses are running the script can still take its
\* next step, up to and including the completion message.
C13_TarNotAwaited ==
    [][/\ (pc = "tar_dir" /\ pc' # "tar_dir") =>
            /\ \E t \in tars' : t.pass = cur /\ t.file = TarballOf(cur)
            /\ files' = files
       /\ (tars # {} /\ pc \notin {"exit", "crashed"}) => ENABLED ScriptNext
       /\ (tars # {} /\ pc = "for" /\ ti > Len(targets)) => ENABLED LogDone]_vars

\* The run is over with the completion message logged while the tar of the
\* last pass is still running and its tarball is not on disk.
C13_Witness ==
    /\ pc = "exit"
    /\ log[Len(log)] = Info(MsgDone)
    /\ \E t \in tars : t.pass = <<"linux", "arm64">>
    /\ TarballOf(<<"linux", "arm64">>) \notin files

\* C14 as stated: a call that gave up has slept 511 units in all.
C14_GaveUpAfter511 == outcome = "gave_up" => slept = 511

RECURSIVE Pow2(_)
Pow2(n) == IF n = 0 THEN 1 ELSE 2 * Pow2(n - 1)

\* C14 as the code has it: the waits start at 1 and double after each failed
\* check, and a call that gave up made 9 checks and slept 1+2+...+128 = 255
\* units: the wait of 256 is the ceiling and is never slept.
C14_GaveUpAfter255 ==
    /\ pc = "while" =>
        /\ wait_time = Pow2(checks)
        /\ slept = Pow2(checks) - 1
        /\ wait_time <= 256
    /\ outcome = "gave_up" =>
        /\ checks = 9
        /\ wait_time = 256
        /\ slept = 255

C14_Witness ==
    /\ outcome = "gave_up" /\ slept = 255 /\ checks = 9
    /\ file_name = "windows/bootstrap.exe"

\* The archives the iteration at hand could write.
ArchivesOfCur ==
    {TarballName(ArchiveName(target, arch, connector_version)),
     ZipName(ArchiveName(target, arch, connector_version)),
     ZipName(None),
     SamTarName(arch, connector_version)}

\* C15: once run_build has returned None, create_tarball has logged the two
\* errors and returned None without a waiter and without a tar step, no
\* compiler ran, and the iteration writes no zip and no serverless bundle.
C15_SentinelAbortsPass ==
    bin_name = None =>
        /\ pc \in {"if_linux", "for", "crashed"}
        /\ pc = "crashed" => IsLinux(target)
        /\ main_bin_name = None
        /\ log[Len(log)] = Error(MsgCannotCreate)
        /\ launches = 0 /\ proc = None
        /\ checks = 0 /\ outcome = "none" /\ file_name = Unbound
        /\ tars = {} /\ tarStarted = {}
        /\ zipped = {} /\ bundled = {}
        /\ files \cap ArchivesOfCur = {}

C15_Witness ==
    /\ bin_name = None
    /\ target = "linux" /\ arch = ""
    /\ pc = "crashed"
    /\ "linux/documentation" \in files

\* The zip of pass p.
ZipOf(p) == ZipName(ArchiveName(p[1], p[2], connector_version))

\* C16: the bundle of a linux pass is opened only after zip_dir of that pass
\* has written the zip; when the zip is added, check_file has run on the path
\* of that very zip and found it at once; and every bundled pass has its zip.
C16_BundleAfterZip ==
    /\ pc \in {"package_sam_template", "tar_add"} =>
        /\ cur \in zipped
        /\ ZipOf(cur) \in files
    /\ (pc = "while" /\ ret = "tar_add") => file_name = ZipOf(cur)
    /\ pc = "tar_add" =>
        /\ file_name = ZipOf(cur)
        /\ outcome = "found" /\ checks = 1 /\ slept = 0
    /\ \A p \in bundled : p \in zipped /\ ZipOf(p) \in files
    /\ \A a \in Archs :
        SamTarName(a, connector_version) \in files => <<"linux", a>> \in zipped

C16_Witness ==
    /\ pc = "tar_add"
    /\ cur = <<"linux", "arm64">>
    /\ outcome = "found"
    /\ <<"linux", "amd64">> \in bundled

\* C17: create_directory on a directory that exists goes on to the copying
\* without an os.mkdir, an error or a change; and the copying puts every
\* top-level documentation file that is present into the directory, adds none
\* that is absent, and logs nothing.
C17_CreateDirectoryIdempotent ==
    [][/\ (pc = "create_directory" /\ pc' # pc /\ target \in files) =>
            (pc' = "copy" /\ files' = files /\ log' = log)
       /\ (pc = "copy" /\ pc' # pc) =>
            /\ log' = log
            /\ target \in files'
            /\ "documentation" \in files => pc' = "run_build"
            /\ \A f \in DocFiles :
                /\ f \in files => (target \o "/" \o f) \in files'
                /\ f \notin files =>
                    ((target \o "/" \o f) \in files' <=> (target \o "/" \o f) \in files)]_vars

C17_Witness ==
    /\ stage[<<"windows", "arm64">>] = "STAGED"
    /\ "README.md" \notin files
    /\ "windows/README.md" \notin files
    /\ "windows/LICENSE" \in files
    /\ log = <<>>

\* The archive files pass p writes: its tarball and, for linux, its zip and
\* its serverless bundle.
ArchivesOf(p) ==
    {TarballOf(p)} \cup
        (IF IsLinux(p[1])
         THEN {ZipOf(p), SamTarName(p[2], connector_version)}
         ELSE {})

\* The names every pass writes, by kind and all together (tabulated once:
\* @@ yields the function as a table instead of a rule applied per state).
TarballNames == <<>> @@ [p \in Passes |-> TarballOf(p)]
ZipNames == <<>> @@ [p \in LinuxPasses |-> ZipOf(p)]
BundleNames == <<>> @@ [p \in LinuxPasses |-> SamTarName(p[2], connector_version)]
ArchiveNames == <<>> @@ [p \in Passes |-> ArchivesOf(p)]

\* The passes that have issued an archive step.
Archiving == tarStarted \cup zipped \cup bundled

\* C18: within one run no two passes write an archive of the same name:
\* tarball names differ between any two passes, zip names and bundle names
\* differ between the two linux passes, and no name of one pass is a name of
\* another; every running tar writes the tarball of its own pass.
C18_ArchiveNamesInjective ==
    /\ \A p \in Archiving : \A q \in Archiving \ {p} :
        /\ TarballNames[p] # TarballNames[q]
        /\ (p \in LinuxPasses /\ q \in LinuxPasses) =>
            /\ ZipNames[p] # ZipNames[q]
            /\ BundleNames[p] # BundleNames[q]
        /\ ArchiveNames[p] \cap ArchiveNames[q] = {}
    /\ \A t \in tars : \A p \in Passes : t.file \in ArchiveNames[p] => t.pass = p

C18_Witness ==
    /\ Archiving = Passes
    /\ tars = {}
    /\ \A p \in Passes : ArchiveNames[p] \subseteq files
    /\ Cardinality(UNION {ArchiveNames[p] : p \in Passes}) = 10
====
